---- MODULE Spec2Model ----
(***************************************************************************)
(* Model of src/implementors/core/ops/trait.InPlace.js: a generated data   *)
(* script that builds a mapping from library names to HTML fragments and   *)
(* hands it to the documentation page, either by calling                   *)
(* window.register_implementors or by storing it in                        *)
(* window.pending_implementors.                                            *)
(*                                                                         *)
(* The script is executed statement by statement (JavaScript runs it       *)
(* synchronously, so nothing else runs while pc # 0).  The page's window   *)
(* starts in an arbitrary state (Spec) or as a freshly loaded page         *)
(* (SpecPage).                                                             *)
(***************************************************************************)
EXTENDS Integers, Sequences, FiniteSets, TLC

\* Number of data-script executions in one page load.
MaxRuns == 2

(***************************************************************************)
(* JavaScript values, as far as the script can tell them apart.            *)
(***************************************************************************)
Undefined == [t |-> "undefined", id |-> 0]
Null == [t |-> "null", id |-> 0]
Num(n) == [t |-> "number", id |-> n]
Fn(n) == [t |-> "function", id |-> n]
Obj(n) == [t |-> "object", id |-> n]

\* The condition of `if (window.register_implementors)`: JS ToBoolean.
ToBoolean(v) ==
    CASE v.t = "undefined" -> FALSE
      [] v.t = "null" -> FALSE
      [] v.t = "number" -> v.id # 0
      [] OTHER -> TRUE

\* `window.register_implementors(...)` throws TypeError unless the value
\* is a function.
IsCallable(v) == v.t = "function"

\* The callback installed by the page's rendering script, a callback some
\* other page script installed, and a non-callable object.
RendererCallback == Fn(1)
PageCallback == Fn(2)
PageObject == Obj(0)

GlobalNames == {"register_implementors", "pending_implementors", "implementors"}

(***************************************************************************)
(* The data table of line 2.  The three fragments are the pre-rendered     *)
(* HTML of `impl InPlace<T> for X`, named here by X.                       *)
(***************************************************************************)
IntermediateBox == "IntermediateBox"
FrontPlace == "FrontPlace"
BackPlace == "BackPlace"

BoxFirst == <<IntermediateBox, FrontPlace, BackPlace>>
BoxLast == <<FrontPlace, BackPlace, IntermediateBox>>

Assign(k, v) == [op |-> "assign", key |-> k, val |-> v]
GlueStmt == [op |-> "glue", key |-> "", val |-> <<>>]

EntriesDuplicateFragment ==
    << Assign("lazy_static", BoxFirst), Assign("regex_syntax", BoxFirst),
       Assign("libc", BoxFirst), Assign("serde", BoxFirst),
       Assign("nix", BoxFirst), Assign("mio", BoxFirst),
       Assign("ws", BoxLast), Assign("hyper", BoxLast),
       Assign("handlebars", BoxFirst),
       Assign("iron", <<FrontPlace, BackPlace, FrontPlace>>) >>

Entries ==
    << Assign("lazy_static", BoxFirst), Assign("regex_syntax", BoxFirst),
       Assign("libc", BoxFirst), Assign("serde", BoxFirst),
       Assign("nix", BoxFirst), Assign("mio", BoxFirst),
       Assign("ws", BoxLast), Assign("hyper", BoxLast),
       Assign("handlebars", BoxFirst), Assign("iron", BoxLast) >>

BodyGlueBeforeLastEntry ==
    SubSeq(Entries, 1, Len(Entries) - 1) \o <<GlueStmt>>
        \o <<Entries[Len(Entries)]>>

\* The statements of the script in source order: the ten assignments of
\* line 2, then the registration glue of lines 4-8.
Body == Entries \o <<GlueStmt>>

\* Another generated data script of the same shape (the implementors file
\* of some other trait): its own table, the same glue.
SiblingEntries ==
    << Assign("libc", <<"SiblingA">>), Assign("mdbook", <<"SiblingB", "SiblingA">>) >>

SiblingBody == SiblingEntries \o <<GlueStmt>>

InPlaceJs == "trait.InPlace.js"
SiblingJs == "trait.Sibling.js"
Scripts == {InPlaceJs, SiblingJs}

Program(s) == IF s = InPlaceJs THEN Body ELSE SiblingBody

EmptyMapping == [k \in {} |-> <<>>]

\* implementors[k] = v
PutEntry(m, k, v) == [x \in (DOMAIN m) \cup {k} |-> IF x = k THEN v ELSE m[x]]

GlobalWrite(n, v) == [name |-> n, value |-> v]

RECURSIVE ApplyWrites(_, _)
ApplyWrites(w, ws) ==
    IF ws = <<>> THEN w
    ELSE ApplyWrites([w EXCEPT ![Head(ws).name] = Head(ws).value], Tail(ws))

(***************************************************************************)
(* Line 1: (function() {var implementors = {};                             *)
(***************************************************************************)
NewMappingReusePending(w, fresh) ==
    IF w["pending_implementors"].t = "object" /\ w["pending_implementors"].id >= 1
    THEN w["pending_implementors"] ELSE fresh

\* The value of the local: a fresh empty object.
NewMapping(w, fresh) == fresh

DeclWritesGlobalVar(m) == <<GlobalWrite("implementors", m)>>

\* Global writes of the declaration: none, the var is local to the
\* function wrapper.
DeclWrites(m) == <<>>

(***************************************************************************)
(* Lines 4-8: the registration glue.                                       *)
(***************************************************************************)
AlwaysCall(w) == TRUE

NeverCall(w) == FALSE

\* Line 4: if (window.register_implementors)
TakesCallBranch(w) == ToBoolean(w["register_implementors"])

CallArgsNone(m) == <<>>

\* Line 5: window.register_implementors(implementors);
CallArgs(m) == <<m>>

StoreWritesNothing(m) == <<>>

StoreWritesWrongSlot(m) == <<GlobalWrite("register_implementors", m)>>

\* Line 7: window.pending_implementors = implementors;
StoreWrites(m) == <<GlobalWrite("pending_implementors", m)>>

\* What a callback may do when the script calls it.  The renderer's
\* callback takes the mapping and returns; any other function may return,
\* throw, or touch the window itself.
Outcomes(f) ==
    IF f = RendererCallback THEN {"returns"}
    ELSE {"returns", "throws", "clearsPending"}

FirstArg(args) == IF Len(args) >= 1 THEN args[1] ELSE Undefined

VARIABLES
    window,          \* the globals: [GlobalNames -> value]
    heap,            \* heap[i]: the content of mapping object Obj(i)
    pc,              \* 0: no script running; k: about to run statement k
    implementors,    \* the local variable of the running script
    log,             \* one record per script execution (history)
    rendererLoaded,  \* the page's rendering script has run
    obtained         \* the values the renderer received, in order

vars == <<window, heap, pc, implementors, log, rendererLoaded, obtained>>

RegValues == {Undefined, Null, Num(0), Num(1), PageCallback, PageObject}
PendingValues == {Undefined, PageObject}
OtherValues == {Undefined, Num(1)}

Init ==
    /\ window \in [GlobalNames -> RegValues \cup PendingValues \cup OtherValues]
    /\ window["register_implementors"] \in RegValues
    /\ window["pending_implementors"] \in PendingValues
    /\ window["implementors"] \in OtherValues
    /\ heap = <<>>
    /\ pc = 0
    /\ implementors = Undefined
    /\ log = <<>>
    /\ rendererLoaded = FALSE
    /\ obtained = <<>>

\* A freshly loaded page: none of the three globals is defined.
InitPage ==
    /\ window = [n \in GlobalNames |-> Undefined]
    /\ heap = <<>>
    /\ pc = 0
    /\ implementors = Undefined
    /\ log = <<>>
    /\ rendererLoaded = FALSE
    /\ obtained = <<>>

cur == Len(log)
prog == Program(log[cur].script)

\* Line 1: the browser starts executing script s.
Load(s) ==
    /\ pc = 0
    /\ Len(log) < MaxRuns
    /\ LET m == NewMapping(window, Obj(Len(heap) + 1)) IN
        /\ heap' = Append(heap, EmptyMapping)
        /\ implementors' = m
        /\ window' = ApplyWrites(window, DeclWrites(m))
        /\ log' = Append(log,
              [script |-> s, obj |-> m, regSeen |-> Undefined,
               branch |-> "none", calls |-> <<>>, assigned |-> DeclWrites(m),
               handed |-> EmptyMapping, status |-> "running",
               pendingBefore |-> window["pending_implementors"],
               pendingAfter |-> Undefined,
               rendererBefore |-> rendererLoaded])
    /\ pc' = 1
    /\ UNCHANGED <<rendererLoaded, obtained>>

\* Line 2: implementors["key"] = [...];
AssignEntry ==
    /\ pc >= 1
    /\ pc <= Len(prog)
    /\ prog[pc].op = "assign"
    /\ heap' = [heap EXCEPT ![implementors.id] = PutEntry(@, prog[pc].key, prog[pc].val)]
    /\ pc' = pc + 1
    /\ UNCHANGED <<window, implementors, log, rendererLoaded, obtained>>

\* Lines 4-5: the condition holds and the value is a function: it is called.
GlueCall ==
    /\ pc >= 1
    /\ pc <= Len(prog)
    /\ prog[pc].op = "glue"
    /\ TakesCallBranch(window)
    /\ IsCallable(window["register_implementors"])
    /\ \E outcome \in Outcomes(window["register_implementors"]) :
        LET f == window["register_implementors"]
            args == CallArgs(implementors)
        IN
        /\ log' = [log EXCEPT ![cur] =
              [@ EXCEPT !.regSeen = f, !.branch = "call",
                        !.calls = Append(@, [fn |-> f, args |-> args]),
                        !.handed = heap[implementors.id],
                        !.status = IF outcome = "throws" THEN "callbackThrew" ELSE @,
                        !.pendingAfter = IF outcome = "throws"
                                         THEN window["pending_implementors"] ELSE @]]
        /\ obtained' = IF f = RendererCallback
                       THEN Append(obtained, FirstArg(args)) ELSE obtained
        /\ window' = IF outcome = "clearsPending"
                     THEN [window EXCEPT !["pending_implementors"] = Undefined]
                     ELSE window
        /\ pc' = IF outcome = "throws" THEN 0 ELSE pc + 1
        /\ implementors' = IF outcome = "throws" THEN Undefined ELSE implementors
    /\ UNCHANGED <<heap, rendererLoaded>>

\* Lines 4-5: the condition holds but the value is not a function: the call
\* expression throws TypeError and the script ends there.
GlueTypeError ==
    /\ pc >= 1
    /\ pc <= Len(prog)
    /\ prog[pc].op = "glue"
    /\ TakesCallBranch(window)
    /\ ~IsCallable(window["register_implementors"])
    /\ log' = [log EXCEPT ![cur] =
          [@ EXCEPT !.regSeen = window["register_implementors"],
                    !.branch = "call", !.status = "TypeError",
                    !.pendingAfter = window["pending_implementors"]]]
    /\ pc' = 0
    /\ implementors' = Undefined
    /\ UNCHANGED <<window, heap, rendererLoaded, obtained>>

\* Lines 6-8: the else branch.
GlueStore ==
    /\ pc >= 1
    /\ pc <= Len(prog)
    /\ prog[pc].op = "glue"
    /\ ~TakesCallBranch(window)
    /\ window' = ApplyWrites(window, StoreWrites(implementors))
    /\ log' = [log EXCEPT ![cur] =
          [@ EXCEPT !.regSeen = window["register_implementors"],
                    !.branch = "store",
                    !.assigned = @ \o StoreWrites(implementors),
                    !.handed = heap[implementors.id]]]
    /\ pc' = pc + 1
    /\ UNCHANGED <<heap, implementors, rendererLoaded, obtained>>

\* Line 10: })() - the function returns.
Finish ==
    /\ pc >= 1
    /\ pc = Len(prog) + 1
    /\ log' = [log EXCEPT ![cur] =
          [@ EXCEPT !.status = "completed",
                    !.pendingAfter = window["pending_implementors"]]]
    /\ pc' = 0
    /\ implementors' = Undefined
    /\ UNCHANGED <<window, heap, rendererLoaded, obtained>>

\* The page's rendering script: it exposes the registration function and
\* picks up data that was stored before it ran.
RendererLoads ==
    /\ pc = 0
    /\ ~rendererLoaded
    /\ window' = [window EXCEPT !["register_implementors"] = RendererCallback]
    /\ obtained' = IF ToBoolean(window["pending_implementors"])
                   THEN Append(obtained, window["pending_implementors"])
                   ELSE obtained
    /\ rendererLoaded' = TRUE
    /\ UNCHANGED <<heap, pc, implementors, log>>

Next ==
    \/ \E s \in Scripts : Load(s)
    \/ AssignEntry
    \/ GlueCall
    \/ GlueTypeError
    \/ GlueStore
    \/ Finish
    \/ RendererLoads

Spec == Init /\ [][Next]_vars

NextPage ==
    \/ \E s \in Scripts : Load(s)
    \/ AssignEntry
    \/ GlueCall
    \/ GlueStore
    \/ Finish
    \/ RendererLoads

SpecPage == InitPage /\ [][NextPage]_vars

(***************************************************************************)
(* Properties.  log[r] is the history of the r-th script execution.        *)
(***************************************************************************)
Runs == DOMAIN log
Finished(r) == log[r].status # "running"
Invoked(r) == Len(log[r].calls)
PendingWrites(r) ==
    Cardinality({i \in DOMAIN log[r].assigned :
                    log[r].assigned[i].name = "pending_implementors"})
Keys(entries) == {entries[i].key : i \in DOMAIN entries}
EntriesOf(s) == IF s = InPlaceJs THEN Entries ELSE SiblingEntries
Range(f) == {f[i] : i \in DOMAIN f}
LibraryKeys ==
    {"lazy_static", "regex_syntax", "libc", "serde", "nix", "mio", "ws",
     "hyper", "handlebars", "iron"}

\* C1, as stated: every finished execution either invoked
\* register_implementors exactly once or assigned pending_implementors
\* exactly once, never both and never neither, whatever the window held.
C1_ExactlyOneEffect ==
    \A r \in Runs : Finished(r) =>
        \/ Invoked(r) = 1 /\ PendingWrites(r) = 0
        \/ Invoked(r) = 0 /\ PendingWrites(r) = 1

\* C1, amended: every finished execution took exactly one branch.  The
\* store branch assigns pending_implementors exactly once and invokes
\* nothing; the call branch assigns nothing and invokes
\* register_implementors exactly once when it is a function, and when it
\* is truthy but not a function the call raises TypeError and nothing is
\* invoked or assigned.
C1_ExactlyOneBranch ==
    \A r \in Runs : Finished(r) =>
        /\ log[r].branch \in {"call", "store"}
        /\ log[r].branch = "store" => Invoked(r) = 0 /\ PendingWrites(r) = 1
        /\ log[r].branch = "call" =>
            /\ PendingWrites(r) = 0
            /\ IF IsCallable(log[r].regSeen)
               THEN Invoked(r) = 1
               ELSE Invoked(r) = 0 /\ log[r].status = "TypeError"

C1_Witness ==
    \E r1, r2 \in Runs :
        /\ Finished(r1) /\ log[r1].branch = "store" /\ PendingWrites(r1) = 1
        /\ Finished(r2) /\ log[r2].branch = "call" /\ Invoked(r2) = 1

C3_PendingBranch ==
    \A r \in Runs : (Finished(r) /\ ~ToBoolean(log[r].regSeen)) =>
        /\ log[r].status = "completed"
        /\ log[r].calls = <<>>
        /\ log[r].obj = Obj(r)
        /\ log[r].pendingAfter = Obj(r)
        /\ DOMAIN heap[r] = Keys(EntriesOf(log[r].script))
        /\ \A i \in DOMAIN EntriesOf(log[r].script) :
              heap[r][EntriesOf(log[r].script)[i].key] = EntriesOf(log[r].script)[i].val

C3_Witness ==
    \E r \in Runs :
        /\ log[r].status = "completed"
        /\ log[r].script = InPlaceJs
        /\ log[r].regSeen = Undefined
        /\ log[r].pendingBefore = PageObject
        /\ pc = 0 /\ r = Len(log)
        /\ window["pending_implementors"] = Obj(r)

\* C4, as stated: no execution raises an error of the script's own,
\* whatever register_implementors holds.
C4_NeverRaises ==
    \A r \in Runs : log[r].status # "TypeError"

\* C4, amended: the script raises an error of its own (TypeError from the
\* call expression) exactly when register_implementors is truthy but not a
\* function; when it is falsy the script completes, and when it is a
\* function the only error that can end the script is one thrown by the
\* callback.
C4_RaisesOnlyOnNonCallable ==
    \A r \in Runs : Finished(r) =>
        /\ log[r].status = "TypeError"
              <=> (ToBoolean(log[r].regSeen) /\ ~IsCallable(log[r].regSeen))
        /\ ~ToBoolean(log[r].regSeen) => log[r].status = "completed"
        /\ log[r].status = "callbackThrew" => IsCallable(log[r].regSeen)

C4_Witness ==
    \E r1, r2 \in Runs :
        /\ log[r1].status = "TypeError" /\ log[r1].regSeen = PageObject
        /\ log[r2].status = "completed" /\ log[r2].regSeen = RendererCallback

\* C5: the only global a script execution assigns is
\* pending_implementors: every global write in the history names it, and
\* no step of a script changes window.register_implementors or
\* window.implementors (the local variable stays local).
C5_OnlyPendingWritten ==
    [][ /\ \A r \in DOMAIN log' : \A i \in DOMAIN log'[r].assigned :
              log'[r].assigned[i].name = "pending_implementors"
        /\ (pc # 0 \/ pc' # 0) =>
              /\ window'["register_implementors"] = window["register_implementors"]
              /\ window'["implementors"] = window["implementors"]
      ]_vars

C5_Witness ==
    \E r \in Runs :
        /\ log[r].status = "completed"
        /\ PendingWrites(r) = 1
        /\ window["implementors"] = Num(1)
        /\ window["register_implementors"] = Null

\* C6: on a freshly loaded page with one execution of this script and the
\* rendering script, in either order, the renderer obtains the complete
\* mapping exactly once: through the callback if it ran first, from
\* pending_implementors (where the mapping waits until then) otherwise.
C6_ObtainedOnce ==
    (pc = 0 /\ Len(log) = 1 /\ log[1].script = InPlaceJs) =>
        /\ DOMAIN heap[1] = LibraryKeys
        /\ log[1].rendererBefore =>
              /\ obtained = <<Obj(1)>>
              /\ log[1].calls = <<[fn |-> RendererCallback, args |-> <<Obj(1)>>]>>
        /\ (~log[1].rendererBefore /\ ~rendererLoaded) =>
              /\ obtained = <<>>
              /\ window["pending_implementors"] = Obj(1)
        /\ (~log[1].rendererBefore /\ rendererLoaded) => obtained = <<Obj(1)>>

C6_Witness ==
    /\ pc = 0 /\ Len(log) = 1 /\ log[1].script = InPlaceJs
    /\ ~log[1].rendererBefore /\ rendererLoaded
    /\ obtained = <<Obj(1)>>

\* C7: after any sequence of executions that all found
\* register_implementors absent (falsy), pending_implementors is the
\* object of the most recent execution, holding that script's entries
\* only; it is none of the objects stored by earlier executions.
C7_LastWriterWins ==
    (pc = 0 /\ Len(log) >= 1 /\ \A r \in Runs : ~ToBoolean(log[r].regSeen)) =>
        LET last == Len(log) IN
        /\ window["pending_implementors"] = log[last].obj
        /\ DOMAIN heap[log[last].obj.id] = Keys(EntriesOf(log[last].script))
        /\ \A r \in Runs : r < last => log[r].obj # window["pending_implementors"]

C7_Witness ==
    /\ pc = 0 /\ Len(log) = 2
    /\ log[1].script = SiblingJs /\ log[2].script = InPlaceJs
    /\ log[1].branch = "store" /\ log[2].branch = "store"
    /\ log[1].pendingAfter = Obj(1)
    /\ window["pending_implementors"] = Obj(2)
    /\ "mdbook" \notin DOMAIN heap[2]

\* C8: when this script hands the mapping over (to the callback, or into
\* pending_implementors) the mapping already has all ten library keys,
\* and its content never changes afterwards.
C8_CompleteBeforeHandOver ==
    \A r \in Runs :
        (log[r].script = InPlaceJs /\ (Invoked(r) >= 1 \/ PendingWrites(r) >= 1)) =>
            /\ DOMAIN log[r].handed = LibraryKeys
            /\ heap[log[r].obj.id] = log[r].handed

C8_Witness ==
    \E r1, r2 \in Runs :
        /\ log[r1].script = InPlaceJs /\ log[r2].script = InPlaceJs
        /\ Finished(r1) /\ Finished(r2)
        /\ Invoked(r1) = 1 /\ PendingWrites(r2) = 1
        /\ "iron" \in DOMAIN log[r1].handed

\* C9: once this script has filled the mapping it has exactly ten keys,
\* each mapped to three pairwise distinct fragments, and every key has the
\* same three fragments (IntermediateBox, FrontPlace, BackPlace).
C9_TableShape ==
    \A r \in Runs :
        (log[r].script = InPlaceJs /\ log[r].branch # "none") =>
            LET m == heap[log[r].obj.id] IN
            /\ Cardinality(DOMAIN m) = 10
            /\ DOMAIN m = LibraryKeys
            /\ \A k \in DOMAIN m :
                /\ Len(m[k]) = 3
                /\ Cardinality(Range(m[k])) = 3
                /\ Range(m[k]) = {IntermediateBox, FrontPlace, BackPlace}

C9_Witness ==
    \E r \in Runs :
        /\ log[r].script = InPlaceJs /\ log[r].branch # "none"
        /\ heap[log[r].obj.id]["iron"] # heap[log[r].obj.id]["libc"]
        /\ Range(heap[log[r].obj.id]["iron"]) = Range(heap[log[r].obj.id]["libc"])

====
